---- MODULE Spec2Model ----
(***************************************************************************)
(* Model of tracing-subscriber's util.rs: the SubscriberInitExt facade     *)
(* (set_default, try_init, init) and TryInitError, running on several      *)
(* threads over the dispatcher registry (tracing_core::dispatch) and the   *)
(* legacy `log` bridge (tracing_log::LogTracer).                           *)
(*                                                                         *)
(* Every facade method is split at the calls it makes into the registry    *)
(* and the bridge: each such call is one atomic step, and the steps of     *)
(* different threads interleave freely.                                    *)
(***************************************************************************)
EXTENDS Integers, Sequences, FiniteSets, TLC

\* ------------------------------------------------------------------ bounds
\* Number of distinct backends (Dispatch values) a caller can pass.
NumDispatchers == 2
\* Number of facade calls (set_default, try_init, init) made in one run.
MaxCalls == 2

Threads == {"t1", "t2", "t3"}
Dispatchers == 1 .. NumDispatchers

\* ------------------------------------------------- external value domains
\* Option<Dispatch>::None
None == 0

\* tracing_core::LevelFilter, in its own representation (lower = more verbose).
TRACE == 0
OFF == 5
\* What LevelFilter::current() yields before any dispatcher fixed the level.
UNSET == 6
\* The local `max level` of try_init before the query has run.
NoLevel == 7

\* log::LevelFilter, in the `log` crate's representation (higher = more verbose).
LogOff == 0
LogTrace == 5

\* The max-level hint of backend d: distinct per backend, backend 1 at TRACE
\* (the hint of a backend that filters nothing), never OFF.
max_level_hint(d) == d - 1

\* AsLog::as_log: tracing's LevelFilter to log's LevelFilter.
as_log(l) == IF l \in TRACE .. OFF THEN OFF - l ELSE LogOff

\* -------------------------------------------------------------- variables
VARIABLES
    features,        \* the build: [std, tracing_log], fixed at compile time
    GLOBAL_DISPATCH, \* the process-wide slot: None or a dispatcher
    CURRENT_STATE,   \* per thread: the scoped default dispatcher (None if none)
    guards,          \* per thread: the live DefaultGuards
    LOGGER,          \* the `log` crate's global logger (the legacy bridge)
    pc,              \* per thread: position inside the facade method it runs
    call,            \* per thread: the facade call it runs or ran last
    level,           \* per thread: try_init's queried LevelFilter
    ret,             \* per thread: what the last call returned
    outcome,         \* per thread: how the last call ended
    wrote,           \* per thread: the call's set_global_default returned Ok
    writes,          \* history: every successful write of the global slot
    bridgeLog,       \* history: every initialization attempt on the bridge
    dropLog,         \* history: every guard destruction
    ncalls,          \* history: number of facade calls entered so far
    side             \* the std and the no-std build run side by side

vars == <<features, GLOBAL_DISPATCH, CURRENT_STATE, guards, LOGGER, pc, call,
          level, ret, outcome, wrote, writes, bridgeLog, dropLog, ncalls, side>>

\* ------------------------------------------- the registry and the bridge
\* dispatch::set_global_default: install-if-empty on the global slot, one
\* atomic compare-and-set.  Err(SetGlobalDefaultError) when already filled.
set_global_default(slot, d) ==
    IF slot = None
    THEN [ok |-> TRUE, slot |-> d]
    ELSE [ok |-> FALSE, slot |-> slot]

\* LevelFilter::current(): the global minimum severity, fixed by the global
\* dispatcher once it is installed.
LevelFilter_current(slot) ==
    IF slot = None THEN UNSET ELSE max_level_hint(slot)

\* LogTracer's Builder::init() with the given max level: installs the bridge
\* as the `log` logger, Err(SetLoggerError) when a logger is already set.
LogTracer_init(logger, by, n, max_level) ==
    IF logger.set
    THEN [ok |-> FALSE, logger |-> logger]
    ELSE [ok |-> TRUE,
          logger |-> [set |-> TRUE, by |-> by, n |-> n, max_level |-> max_level]]

\* dispatch::set_default: makes d the thread's scoped default and returns a
\* guard remembering the one it replaced.
dispatch_set_default(current, d, id) ==
    [current |-> d, guard |-> [id |-> id, prev |-> current]]

\* Drop for DefaultGuard: the thread's scoped default becomes the remembered
\* one (None when there was none).
DefaultGuard_drop(g) == g.prev

\* dispatch::get_default: the dispatcher events of a thread go to, its
\* scoped default when it has one, else the global one (None: no dispatcher).
get_default(scoped, slot) == IF scoped # None THEN scoped ELSE slot

\* ------------------------------------------------------------ TryInitError
\* TryInitError::new: keeps the cause with feature "std", drops it without.
TryInitError_new(std, e) == [inner |-> IF std THEN e ELSE "()"]

NoError == [inner |-> "none"]
Ok == [kind |-> "Ok", cause |-> "none", err |-> NoError]
Err(std, e) == [kind |-> "Err", cause |-> e, err |-> TryInitError_new(std, e)]
NoRet == [kind |-> "none", cause |-> "none", err |-> NoError]

\* The message init hands to Result::expect.
ExpectMsg == "failed to set global default subscriber"

NoCall == [op |-> "none", n |-> 0, d |-> None, with_logger |-> FALSE, before |-> None]
Running == [kind |-> "running", msg |-> "", err |-> NoError]
Returned == [kind |-> "returned", msg |-> "", err |-> NoError]
Panicked(e) == [kind |-> "panicked", msg |-> ExpectMsg, err |-> e]

\* One build of the side-by-side run before its first call: empty slot, no
\* logger, no result yet.
Build0 ==
    [slot |-> None,
     logger |-> [set |-> FALSE, by |-> "none", n |-> 0, max_level |-> LogOff],
     results |-> <<>>, outcomes |-> <<>>]

\* -------------------------------------------------------------------- Init
Init ==
    /\ features \in [std : BOOLEAN, tracing_log : BOOLEAN]
    /\ GLOBAL_DISPATCH = None
    /\ CURRENT_STATE = [t \in Threads |-> None]
    /\ guards = [t \in Threads |-> {}]
    /\ LOGGER = [set |-> FALSE, by |-> "none", n |-> 0, max_level |-> LogOff]
    /\ pc = [t \in Threads |-> "idle"]
    /\ call = [t \in Threads |-> NoCall]
    /\ level = [t \in Threads |-> NoLevel]
    /\ ret = [t \in Threads |-> NoRet]
    /\ outcome = [t \in Threads |-> [kind |-> "none", msg |-> "", err |-> NoError]]
    /\ wrote = [t \in Threads |-> FALSE]
    /\ writes = <<>>
    /\ bridgeLog = <<>>
    /\ dropLog = <<>>
    /\ ncalls = 0
    /\ side = [calls |-> <<>>, std |-> Build0, nostd |-> Build0]

\* A thread enters a facade method: the bookkeeping common to all three.
Enter(t, op, d, wl) ==
    /\ pc[t] = "idle"
    /\ ncalls < MaxCalls
    /\ ncalls' = ncalls + 1
    /\ call' = [call EXCEPT ![t] = [op |-> op, n |-> ncalls + 1, d |-> d,
                                    with_logger |-> wl,
                                    before |-> CURRENT_STATE[t]]]
    /\ level' = [level EXCEPT ![t] = NoLevel]

\* The history entry of one bridge initialization: who tried (thread and
\* call number), how, with which result, and what the global slot held then.
BridgeEntry(t, n, kind, max_level, r) ==
    [by |-> t, n |-> n, kind |-> kind, max_level |-> max_level, ok |-> r.ok,
     slot |-> GLOBAL_DISPATCH, wrote |-> wrote[t]]

\* ------------------------------------------------------------- set_default
\* Variant of set_default that checks the default-configuration bridge
\* initialization (`LogTracer::init().expect(..)`) instead of discarding it.
set_default_LogTracer_init_checked(t, d) ==
    /\ features.std
    /\ Enter(t, "set_default", d, FALSE)
    /\ ret' = [ret EXCEPT ![t] = NoRet]
    /\ wrote' = [wrote EXCEPT ![t] = FALSE]
    /\ IF features.tracing_log
       THEN LET r == LogTracer_init(LOGGER, t, ncalls + 1, LogTrace) IN
            /\ LOGGER' = r.logger
            /\ bridgeLog' = Append(bridgeLog,
                   BridgeEntry(t, ncalls + 1, "default", LogTrace, r))
            /\ pc' = [pc EXCEPT ![t] = IF r.ok THEN "sd_install" ELSE "panicked"]
            /\ outcome' = [outcome EXCEPT ![t] =
                   IF r.ok THEN Running
                   ELSE Panicked(TryInitError_new(features.std, "SetLoggerError"))]
       ELSE /\ UNCHANGED <<LOGGER, bridgeLog>>
            /\ pc' = [pc EXCEPT ![t] = "sd_install"]
            /\ outcome' = [outcome EXCEPT ![t] = Running]
    /\ UNCHANGED <<features, side, GLOBAL_DISPATCH, CURRENT_STATE, guards, writes, dropLog>>

\* Variant of set_default without its first statement: the bridge is left
\* alone whatever the features.
set_default_LogTracer_init_skipped(t, d) ==
    /\ features.std
    /\ Enter(t, "set_default", d, FALSE)
    /\ UNCHANGED <<LOGGER, bridgeLog>>
    /\ pc' = [pc EXCEPT ![t] = "sd_install"]
    /\ ret' = [ret EXCEPT ![t] = NoRet]
    /\ outcome' = [outcome EXCEPT ![t] = Running]
    /\ wrote' = [wrote EXCEPT ![t] = FALSE]
    /\ UNCHANGED <<features, side, GLOBAL_DISPATCH, CURRENT_STATE, guards, writes, dropLog>>

\* set_default, first statement: `let _ = LogTracer::init();` when the
\* "tracing-log" feature is compiled in; its result is discarded.
set_default_LogTracer_init(t, d) ==
    /\ features.std
    /\ Enter(t, "set_default", d, FALSE)
    /\ IF features.tracing_log
       THEN LET r == LogTracer_init(LOGGER, t, ncalls + 1, LogTrace) IN
            /\ LOGGER' = r.logger
            /\ bridgeLog' = Append(bridgeLog,
                   BridgeEntry(t, ncalls + 1, "default", LogTrace, r))
       ELSE UNCHANGED <<LOGGER, bridgeLog>>
    /\ pc' = [pc EXCEPT ![t] = "sd_install"]
    /\ ret' = [ret EXCEPT ![t] = NoRet]
    /\ outcome' = [outcome EXCEPT ![t] = Running]
    /\ wrote' = [wrote EXCEPT ![t] = FALSE]
    /\ UNCHANGED <<features, side, GLOBAL_DISPATCH, CURRENT_STATE, guards, writes, dropLog>>

\* Variant of set_default that installs the dispatcher twice and hands back
\* the second guard, which remembers the dispatcher itself instead of the
\* one that was active before the call.
set_default_install_twice(t) ==
    /\ pc[t] = "sd_install"
    /\ LET r1 == dispatch_set_default(CURRENT_STATE[t], call[t].d, call[t].n)
           r == dispatch_set_default(r1.current, call[t].d, call[t].n) IN
       /\ CURRENT_STATE' = [CURRENT_STATE EXCEPT ![t] = r.current]
       /\ guards' = [guards EXCEPT ![t] = @ \cup
              {[id |-> r.guard.id, prev |-> r.guard.prev,
                d |-> call[t].d, before |-> call[t].before]}]
       /\ ret' = [ret EXCEPT ![t] = [kind |-> "Guard", cause |-> "none", err |-> NoError]]
    /\ outcome' = [outcome EXCEPT ![t] = Returned]
    /\ pc' = [pc EXCEPT ![t] = "idle"]
    /\ UNCHANGED <<features, side, GLOBAL_DISPATCH, LOGGER, call, level, wrote, writes,
                   bridgeLog, dropLog, ncalls>>

\* Variant of set_default whose install is not confined to the calling
\* thread: the dispatcher becomes the scoped default of every thread.
set_default_install_shared(t) ==
    /\ pc[t] = "sd_install"
    /\ LET r == dispatch_set_default(CURRENT_STATE[t], call[t].d, call[t].n) IN
       /\ CURRENT_STATE' = [u \in Threads |-> r.current]
       /\ guards' = [guards EXCEPT ![t] = @ \cup
              {[id |-> r.guard.id, prev |-> r.guard.prev,
                d |-> call[t].d, before |-> call[t].before]}]
       /\ ret' = [ret EXCEPT ![t] = [kind |-> "Guard", cause |-> "none", err |-> NoError]]
    /\ outcome' = [outcome EXCEPT ![t] = Returned]
    /\ pc' = [pc EXCEPT ![t] = "idle"]
    /\ UNCHANGED <<features, side, GLOBAL_DISPATCH, LOGGER, call, level, wrote, writes,
                   bridgeLog, dropLog, ncalls>>

\* Variant of set_default that, besides the scoped install, also offers the
\* dispatcher to the global slot (`let _ = dispatch::set_global_default(..)`).
set_default_install_global(t) ==
    /\ pc[t] = "sd_install"
    /\ LET r == dispatch_set_default(CURRENT_STATE[t], call[t].d, call[t].n) IN
       /\ CURRENT_STATE' = [CURRENT_STATE EXCEPT ![t] = r.current]
       /\ guards' = [guards EXCEPT ![t] = @ \cup
              {[id |-> r.guard.id, prev |-> r.guard.prev,
                d |-> call[t].d, before |-> call[t].before]}]
       /\ ret' = [ret EXCEPT ![t] = [kind |-> "Guard", cause |-> "none", err |-> NoError]]
    /\ GLOBAL_DISPATCH' = set_global_default(GLOBAL_DISPATCH, call[t].d).slot
    /\ outcome' = [outcome EXCEPT ![t] = Returned]
    /\ pc' = [pc EXCEPT ![t] = "idle"]
    /\ UNCHANGED <<features, side, LOGGER, call, level, wrote, writes,
                   bridgeLog, dropLog, ncalls>>

\* set_default, second statement: `dispatch::set_default(&self.into())`,
\* whose guard is the method's return value.
set_default_install(t) ==
    /\ pc[t] = "sd_install"
    /\ LET r == dispatch_set_default(CURRENT_STATE[t], call[t].d, call[t].n) IN
       /\ CURRENT_STATE' = [CURRENT_STATE EXCEPT ![t] = r.current]
       /\ guards' = [guards EXCEPT ![t] = @ \cup
              {[id |-> r.guard.id, prev |-> r.guard.prev,
                d |-> call[t].d, before |-> call[t].before]}]
       /\ ret' = [ret EXCEPT ![t] = [kind |-> "Guard", cause |-> "none", err |-> NoError]]
    /\ outcome' = [outcome EXCEPT ![t] = Returned]
    /\ pc' = [pc EXCEPT ![t] = "idle"]
    /\ UNCHANGED <<features, side, GLOBAL_DISPATCH, LOGGER, call, level, wrote, writes,
                   bridgeLog, dropLog, ncalls>>

\* The caller destroys one of its guards (scope end, explicit drop, or
\* unwinding after a panic).
drop_guard(t, g) ==
    /\ pc[t] \in {"idle", "panicked"}
    /\ g \in guards[t]
    /\ CURRENT_STATE' = [CURRENT_STATE EXCEPT ![t] = DefaultGuard_drop(g)]
    /\ guards' = [guards EXCEPT ![t] = @ \ {g}]
    /\ dropLog' = Append(dropLog,
           [t |-> t, id |-> g.id, d |-> g.d, at |-> ncalls, before |-> g.before,
            after |-> DefaultGuard_drop(g),
            top |-> \A h \in guards[t] : h.id <= g.id])
    /\ UNCHANGED <<features, side, GLOBAL_DISPATCH, LOGGER, pc, call, level, ret, outcome,
                   wrote, writes, bridgeLog, ncalls>>

\* ------------------------------------------------------- try_init and init
\* How a try_init body hands its Result back: to the caller, or to init's
\* `expect`.
Return(t, op, r) ==
    /\ ret' = [ret EXCEPT ![t] = r]
    /\ pc' = [pc EXCEPT ![t] = IF op = "init" THEN "expect" ELSE "idle"]
    /\ outcome' = [outcome EXCEPT ![t] = IF op = "init" THEN Running ELSE Returned]

\* Variant of try_init that discards the result of set_global_default
\* (`let _ = ...` instead of `?`) and carries on as after a success.
try_init_set_global_default_unchecked(t, op, d, wl) ==
    /\ op \in {"try_init", "init"}
    /\ wl => features.tracing_log
    /\ Enter(t, op, d, wl)
    /\ LET r == set_global_default(GLOBAL_DISPATCH, d) IN
       /\ GLOBAL_DISPATCH' = r.slot
       /\ wrote' = [wrote EXCEPT ![t] = r.ok]
       /\ writes' = IF r.ok THEN Append(writes, [t |-> t, d |-> d]) ELSE writes
       /\ IF wl
          THEN /\ pc' = [pc EXCEPT ![t] = "ti_query"]
               /\ ret' = [ret EXCEPT ![t] = NoRet]
               /\ outcome' = [outcome EXCEPT ![t] = Running]
          ELSE Return(t, op, Ok)
    /\ UNCHANGED <<features, side, CURRENT_STATE, guards, LOGGER, bridgeLog, dropLog>>

\* Variant of try_init that, like set_default, first initializes the bridge
\* in its default configuration, whatever set_global_default then says.
try_init_set_global_default_eager_bridge(t, op, d, wl) ==
    /\ op \in {"try_init", "init"}
    /\ wl => features.tracing_log
    /\ Enter(t, op, d, wl)
    /\ IF features.tracing_log
       THEN LET b == LogTracer_init(LOGGER, t, ncalls + 1, LogTrace) IN
            /\ LOGGER' = b.logger
            /\ bridgeLog' = Append(bridgeLog,
                   BridgeEntry(t, ncalls + 1, "default", LogTrace, b))
       ELSE UNCHANGED <<LOGGER, bridgeLog>>
    /\ LET r == set_global_default(GLOBAL_DISPATCH, d) IN
       /\ GLOBAL_DISPATCH' = r.slot
       /\ wrote' = [wrote EXCEPT ![t] = r.ok]
       /\ writes' = IF r.ok THEN Append(writes, [t |-> t, d |-> d]) ELSE writes
       /\ IF ~r.ok
          THEN Return(t, op, Err(features.std, "SetGlobalDefaultError"))
          ELSE IF wl
               THEN /\ pc' = [pc EXCEPT ![t] = "ti_query"]
                    /\ ret' = [ret EXCEPT ![t] = NoRet]
                    /\ outcome' = [outcome EXCEPT ![t] = Running]
               ELSE Return(t, op, Ok)
    /\ UNCHANGED <<features, side, CURRENT_STATE, guards, dropLog>>

\* Variant of try_init that unwraps the result of set_global_default
\* (`.unwrap()` instead of `.map_err(..)?`) and so panics when it fails.
try_init_set_global_default_unwrap(t, op, d, wl) ==
    /\ op \in {"try_init", "init"}
    /\ wl => features.tracing_log
    /\ Enter(t, op, d, wl)
    /\ LET r == set_global_default(GLOBAL_DISPATCH, d) IN
       /\ GLOBAL_DISPATCH' = r.slot
       /\ wrote' = [wrote EXCEPT ![t] = r.ok]
       /\ writes' = IF r.ok THEN Append(writes, [t |-> t, d |-> d]) ELSE writes
       /\ IF ~r.ok
          THEN /\ ret' = [ret EXCEPT ![t] = NoRet]
               /\ pc' = [pc EXCEPT ![t] = "panicked"]
               /\ outcome' = [outcome EXCEPT ![t] = Panicked(
                      TryInitError_new(features.std, "SetGlobalDefaultError"))]
          ELSE IF wl
               THEN /\ pc' = [pc EXCEPT ![t] = "ti_query"]
                    /\ ret' = [ret EXCEPT ![t] = NoRet]
                    /\ outcome' = [outcome EXCEPT ![t] = Running]
               ELSE Return(t, op, Ok)
    /\ UNCHANGED <<features, side, CURRENT_STATE, guards, LOGGER, bridgeLog, dropLog>>

\* Variant of try_init without the `if with_logger` test: with the
\* "tracing-log" feature it goes on to the bridge after every successful write.
try_init_set_global_default_always_bridge(t, op, d, wl) ==
    /\ op \in {"try_init", "init"}
    /\ wl => features.tracing_log
    /\ Enter(t, op, d, wl)
    /\ LET r == set_global_default(GLOBAL_DISPATCH, d) IN
       /\ GLOBAL_DISPATCH' = r.slot
       /\ wrote' = [wrote EXCEPT ![t] = r.ok]
       /\ writes' = IF r.ok THEN Append(writes, [t |-> t, d |-> d]) ELSE writes
       /\ IF ~r.ok
          THEN Return(t, op, Err(features.std, "SetGlobalDefaultError"))
          ELSE IF features.tracing_log
               THEN /\ pc' = [pc EXCEPT ![t] = "ti_query"]
                    /\ ret' = [ret EXCEPT ![t] = NoRet]
                    /\ outcome' = [outcome EXCEPT ![t] = Running]
               ELSE Return(t, op, Ok)
    /\ UNCHANGED <<features, side, CURRENT_STATE, guards, LOGGER, bridgeLog, dropLog>>

\* try_init, line 62:
\* `dispatch::set_global_default(self.into()).map_err(TryInitError::new)?;`
\* and, when no bridge is asked for, the final `Ok(())`.
try_init_set_global_default(t, op, d, wl) ==
    /\ op \in {"try_init", "init"}
    /\ wl => features.tracing_log
    /\ Enter(t, op, d, wl)
    /\ LET r == set_global_default(GLOBAL_DISPATCH, d) IN
       /\ GLOBAL_DISPATCH' = r.slot
       /\ wrote' = [wrote EXCEPT ![t] = r.ok]
       /\ writes' = IF r.ok THEN Append(writes, [t |-> t, d |-> d]) ELSE writes
       /\ IF ~r.ok
          THEN Return(t, op, Err(features.std, "SetGlobalDefaultError"))
          ELSE IF wl
               THEN /\ pc' = [pc EXCEPT ![t] = "ti_query"]
                    /\ ret' = [ret EXCEPT ![t] = NoRet]
                    /\ outcome' = [outcome EXCEPT ![t] = Running]
               ELSE Return(t, op, Ok)
    /\ UNCHANGED <<features, side, CURRENT_STATE, guards, LOGGER, bridgeLog, dropLog>>

\* Variant of try_init that evaluates LevelFilter::current() before the
\* global slot is written, so that it sees the level of an empty registry.
try_init_LevelFilter_current_early(t) ==
    /\ pc[t] = "ti_query"
    /\ level' = [level EXCEPT ![t] = LevelFilter_current(None)]
    /\ pc' = [pc EXCEPT ![t] = "ti_bridge"]
    /\ UNCHANGED <<features, side, GLOBAL_DISPATCH, CURRENT_STATE, guards, LOGGER, call,
                   ret, outcome, wrote, writes, bridgeLog, dropLog, ncalls>>

\* try_init, line 73: `tracing_core::LevelFilter::current()`.
try_init_LevelFilter_current(t) ==
    /\ pc[t] = "ti_query"
    /\ level' = [level EXCEPT ![t] = LevelFilter_current(GLOBAL_DISPATCH)]
    /\ pc' = [pc EXCEPT ![t] = "ti_bridge"]
    /\ UNCHANGED <<features, side, GLOBAL_DISPATCH, CURRENT_STATE, guards, LOGGER, call,
                   ret, outcome, wrote, writes, bridgeLog, dropLog, ncalls>>

\* Variant of try_init that discards the result of the bridge initialization,
\* as set_default does, and returns Ok(()) in either case.
try_init_LogTracer_init_ignored(t) ==
    /\ pc[t] = "ti_bridge"
    /\ LET r == LogTracer_init(LOGGER, t, call[t].n, as_log(level[t])) IN
       /\ LOGGER' = r.logger
       /\ bridgeLog' = Append(bridgeLog,
              BridgeEntry(t, call[t].n, "with_max_level", as_log(level[t]), r))
       /\ Return(t, call[t].op, Ok)
    /\ UNCHANGED <<features, side, GLOBAL_DISPATCH, CURRENT_STATE, guards, call, level,
                   wrote, writes, dropLog, ncalls>>

\* try_init, lines 70-78:
\* `LogTracer::builder().with_max_level(<level>.as_log()).init()
\*      .map_err(TryInitError::new)?; Ok(())`.
try_init_LogTracer_init(t) ==
    /\ pc[t] = "ti_bridge"
    /\ LET r == LogTracer_init(LOGGER, t, call[t].n, as_log(level[t])) IN
       /\ LOGGER' = r.logger
       /\ bridgeLog' = Append(bridgeLog,
              BridgeEntry(t, call[t].n, "with_max_level", as_log(level[t]), r))
       /\ Return(t, call[t].op,
                 IF r.ok THEN Ok ELSE Err(features.std, "SetLoggerError"))
    /\ UNCHANGED <<features, side, GLOBAL_DISPATCH, CURRENT_STATE, guards, call, level,
                   wrote, writes, dropLog, ncalls>>

\* Variant of init that drops try_init's Result (`let _ = init;`) instead
\* of unwrapping it.
init_expect_swallow(t) ==
    /\ pc[t] = "expect"
    /\ outcome' = [outcome EXCEPT ![t] = Returned]
    /\ pc' = [pc EXCEPT ![t] = "idle"]
    /\ UNCHANGED <<features, side, GLOBAL_DISPATCH, CURRENT_STATE, guards, LOGGER, call,
                   level, ret, wrote, writes, bridgeLog, dropLog, ncalls>>

\* init, line 101: `init.expect("failed to set global default subscriber")`.
init_expect(t) ==
    /\ pc[t] = "expect"
    /\ IF ret[t].kind = "Err"
       THEN /\ outcome' = [outcome EXCEPT ![t] = Panicked(ret[t].err)]
            /\ pc' = [pc EXCEPT ![t] = "panicked"]
       ELSE /\ outcome' = [outcome EXCEPT ![t] = Returned]
            /\ pc' = [pc EXCEPT ![t] = "idle"]
    /\ UNCHANGED <<features, side, GLOBAL_DISPATCH, CURRENT_STATE, guards, LOGGER, call,
                   level, ret, wrote, writes, bridgeLog, dropLog, ncalls>>

\* ------------------------------------------------------------- environment
\* Another actor of the process installs its own `log` logger.
foreign_set_logger ==
    /\ ~LOGGER.set
    /\ LOGGER' = [set |-> TRUE, by |-> "foreign", n |-> 0, max_level |-> LogOff]
    /\ bridgeLog' = Append(bridgeLog,
           [by |-> "foreign", n |-> 0, kind |-> "foreign", max_level |-> LogOff,
            ok |-> TRUE, slot |-> GLOBAL_DISPATCH, wrote |-> FALSE])
    /\ UNCHANGED <<features, side, GLOBAL_DISPATCH, CURRENT_STATE, guards, pc, call, level,
                   ret, outcome, wrote, writes, dropLog, ncalls>>

Next ==
    \/ \E t \in Threads, d \in Dispatchers : set_default_LogTracer_init(t, d)
    \/ \E t \in Threads : set_default_install(t)
    \/ \E t \in Threads : \E g \in guards[t] : drop_guard(t, g)
    \/ \E t \in Threads, op \in {"try_init", "init"}, d \in Dispatchers, wl \in BOOLEAN :
           try_init_set_global_default(t, op, d, wl)
    \/ \E t \in Threads : try_init_LevelFilter_current(t)
    \/ \E t \in Threads : try_init_LogTracer_init(t)
    \/ \E t \in Threads : init_expect(t)
    \/ foreign_set_logger

Spec == Init /\ [][Next]_vars

\* ------------------------------------------------------------ vocabulary
\* The thread's current or last call is a global install (try_init or init).
GlobalCall(t) == call[t].op \in {"try_init", "init"}

\* The try_init body of the thread's call has produced its Result.
TryInitReturned(t) == GlobalCall(t) /\ ret[t].kind \in {"Ok", "Err"}

\* The Result is the failure made by TryInitError::new from the given cause.
FailedWith(t, e) ==
    /\ ret[t].kind = "Err"
    /\ ret[t].cause = e
    /\ ret[t].err = TryInitError_new(features.std, e)

\* This step is thread t entering a try_init or init call.
EntersGlobalCall(t) ==
    /\ call'[t].n # call[t].n
    /\ call'[t].op \in {"try_init", "init"}

\* The thread is between its successful slot write and its bridge
\* initialization.
InBetween(t) == pc[t] \in {"ti_query", "ti_bridge"}

\* ---------------------------------------------------------------- claims
\* C1: however the try_init/init calls of several threads interleave on an
\* empty slot, exactly one call writes the slot, every other call fails with
\* the registry's already-set cause, the slot holds the dispatcher of that
\* single winning call, and a call whose write succeeded never sees the slot
\* hold another dispatcher afterwards.
C1_ExactlyOneWinner ==
    /\ Len(writes) <= 1
    /\ (\E t \in Threads : GlobalCall(t)) => Len(writes) = 1
    /\ GLOBAL_DISPATCH # None => Len(writes) = 1
    /\ \A i \in DOMAIN writes : GLOBAL_DISPATCH = writes[i].d
    /\ \A t \in Threads :
           GlobalCall(t) =>
               IF wrote[t]
               THEN /\ writes = <<[t |-> t, d |-> call[t].d]>>
                    /\ GLOBAL_DISPATCH = call[t].d
                    /\ ~FailedWith(t, "SetGlobalDefaultError")
               ELSE FailedWith(t, "SetGlobalDefaultError")

\* C1 witness: one thread has won the slot and is still inside its call
\* while another thread's call, with another backend, has already lost.
C1_RaceDecided ==
    \E t1, t2 \in Threads :
        /\ t1 # t2
        /\ InBetween(t1) /\ wrote[t1]
        /\ GlobalCall(t2) /\ FailedWith(t2, "SetGlobalDefaultError")
        /\ call[t2].d # call[t1].d
        /\ GLOBAL_DISPATCH = call[t1].d

\* C2: the global slot is write-once.  No step of set_default, try_init, init
\* or a guard drop changes a filled slot, every try_init or init entered on a
\* filled slot fails with the already-set cause without writing, and of two
\* global installs the later one fails while the slot keeps the first write.
C2_WriteOnce ==
    /\ [](\A t1, t2 \in Threads :
            (GlobalCall(t1) /\ GlobalCall(t2) /\ call[t1].n < call[t2].n) =>
                /\ FailedWith(t2, "SetGlobalDefaultError")
                /\ GLOBAL_DISPATCH = writes[1].d)
    /\ [][/\ GLOBAL_DISPATCH # None => GLOBAL_DISPATCH' = GLOBAL_DISPATCH
          /\ \A t \in Threads :
                 (GLOBAL_DISPATCH # None /\ EntersGlobalCall(t)) =>
                     /\ (FailedWith(t, "SetGlobalDefaultError"))'
                     /\ ~wrote'[t]
                     /\ writes' = writes]_vars

\* C2 witness: a try_init without bridge succeeded on the fresh process, then
\* a try_init with a distinct backend failed, and the first backend is still
\* the global dispatcher.
C2_SuccessThenAlreadySet ==
    \E t1, t2 \in Threads :
        /\ call[t1].op = "try_init" /\ ~call[t1].with_logger
        /\ ret[t1] = Ok /\ wrote[t1]
        /\ call[t2].op = "try_init" /\ call[t2].n > call[t1].n
        /\ FailedWith(t2, "SetGlobalDefaultError")
        /\ call[t2].d # call[t1].d
        /\ GLOBAL_DISPATCH = call[t1].d

\* C3: a try_init entered while the slot is filled returns the failure made
\* from the registry's already-set cause in that same step and touches nothing
\* else: the slot, the bridge and its threshold, the scoped state and the
\* queried level stay as they were, whatever with_logger is.
C3_FilledFailsWithoutSideEffect ==
    [][\A t \in Threads :
           (GLOBAL_DISPATCH # None /\ EntersGlobalCall(t)) =>
               /\ (FailedWith(t, "SetGlobalDefaultError"))'
               /\ pc'[t] = (IF call'[t].op = "init" THEN "expect" ELSE "idle")
               /\ level'[t] = NoLevel
               /\ UNCHANGED <<GLOBAL_DISPATCH, LOGGER, bridgeLog, writes,
                              CURRENT_STATE, guards>>]_vars

\* C3 witness: a try_init asking for the bridge failed on a filled slot and
\* the bridge is still uninitialized.
C3_BridgeAskedButUntouched ==
    \E t \in Threads :
        /\ call[t].op = "try_init" /\ call[t].with_logger
        /\ FailedWith(t, "SetGlobalDefaultError")
        /\ ~LOGGER.set /\ bridgeLog = <<>>
        /\ level[t] = NoLevel

\* C4: in try_init with with_logger, the level query and the bridge
\* initialization run only after that same call's slot write succeeded, and
\* the threshold the bridge is given is the global dispatcher's level at the
\* time of the query (converted to the bridge's scale), never an unset or
\* default value, under every interleaving.
C4_BridgeAfterWriteWithCurrentLevel ==
    /\ \A t \in Threads :
           InBetween(t) =>
               wrote[t] /\ call[t].with_logger /\ GLOBAL_DISPATCH = call[t].d
    /\ \A t \in Threads :
           level[t] # NoLevel =>
               /\ wrote[t]
               /\ level[t] # UNSET
               /\ level[t] = max_level_hint(call[t].d)
               /\ level[t] = max_level_hint(GLOBAL_DISPATCH)
    /\ \A i \in DOMAIN bridgeLog :
           bridgeLog[i].kind = "with_max_level" =>
               /\ bridgeLog[i].wrote
               /\ bridgeLog[i].slot # None
               /\ bridgeLog[i].max_level = as_log(max_level_hint(bridgeLog[i].slot))
               /\ bridgeLog[i].max_level # as_log(UNSET)
               /\ bridgeLog[i].ok =>
                      LOGGER.max_level = as_log(max_level_hint(GLOBAL_DISPATCH))

\* C4 witness: a try_init has initialized the bridge with the threshold of
\* the dispatcher it installed, while another thread's install attempt lost.
C4_BridgeThresholdSet ==
    \E i \in DOMAIN bridgeLog : \E t2 \in Threads :
        /\ bridgeLog[i].kind = "with_max_level" /\ bridgeLog[i].ok
        /\ LOGGER.set /\ LOGGER.n = bridgeLog[i].n
        /\ LOGGER.max_level = as_log(max_level_hint(GLOBAL_DISPATCH))
        /\ t2 # bridgeLog[i].by
        /\ FailedWith(t2, "SetGlobalDefaultError")

\* C5: when try_init with with_logger writes the slot and the bridge
\* initialization then fails, the call returns the failure made from the
\* bridge's cause, the slot still holds this call's dispatcher, and every
\* later try_init or init fails with the already-set cause.
C5_BridgeFailureKeepsSlot ==
    /\ \A i \in DOMAIN bridgeLog :
           LET e == bridgeLog[i] IN
           (e.kind = "with_max_level" /\ ~e.ok /\ call[e.by].n = e.n) =>
               FailedWith(e.by, "SetLoggerError")
    /\ \A t \in Threads :
           (GlobalCall(t) /\ FailedWith(t, "SetLoggerError")) =>
               /\ wrote[t] /\ call[t].with_logger
               /\ GLOBAL_DISPATCH = call[t].d
               /\ writes = <<[t |-> t, d |-> call[t].d]>>
               /\ \A t2 \in Threads :
                      (GlobalCall(t2) /\ call[t2].n > call[t].n) =>
                          FailedWith(t2, "SetGlobalDefaultError")

\* C5 witness: a try_init filled the slot and failed on the bridge, and a
\* later try_init failed with the already-set cause.
C5_SlotKeptAfterBridgeFailure ==
    \E t, t2 \in Threads :
        /\ call[t].op = "try_init" /\ FailedWith(t, "SetLoggerError")
        /\ GLOBAL_DISPATCH = call[t].d
        /\ call[t2].op = "try_init" /\ call[t2].n > call[t].n
        /\ FailedWith(t2, "SetGlobalDefaultError")

C7_SetDefaultNeverFails ==
    \A t \in Threads :
        call[t].op = "set_default" =>
            /\ outcome[t].kind \in {"running", "returned"}
            /\ outcome[t].err = NoError
            /\ ret[t].kind \in {"none", "Guard"} /\ ret[t].err = NoError
            /\ pc[t] \in {"sd_install", "idle"}
            /\ pc[t] = "idle" =>
                   /\ ret[t].kind = "Guard" /\ outcome[t] = Returned
                   /\ \/ \E g \in guards[t] : g.id = call[t].n /\ g.d = call[t].d
                      \/ \E i \in DOMAIN dropLog :
                             dropLog[i].t = t /\ dropLog[i].id = call[t].n
                   /\ (\A i \in DOMAIN dropLog :
                           ~(dropLog[i].t = t /\ dropLog[i].at >= call[t].n)) =>
                          CURRENT_STATE[t] = call[t].d

\* C7 witness: set_default returned its guard with the override installed
\* although its bridge initialization failed, on a filled global slot.
C7_GuardDespiteBridgeFailure ==
    \E t \in Threads : \E i \in DOMAIN bridgeLog :
        /\ call[t].op = "set_default" /\ pc[t] = "idle"
        /\ ret[t].kind = "Guard"
        /\ bridgeLog[i].n = call[t].n /\ ~bridgeLog[i].ok
        /\ CURRENT_STATE[t] = call[t].d
        /\ GLOBAL_DISPATCH # None

\* Every guard destruction on the thread so far hit the most recently created
\* live guard of the thread (reverse creation order).
Lifo(t) == \A i \in DOMAIN dropLog : dropLog[i].t = t => dropLog[i].top

\* The live guards of the thread created before guard g.
Older(t, g) == {h \in guards[t] : h.id < g.id}

\* The dispatcher of the most recently created guard in a non-empty set.
NewestOf(gs) == (CHOOSE g \in gs : \A h \in gs : h.id <= g.id).d

\* C8: while a thread destroys its guards in reverse creation order, its
\* scoped overrides are a stack: the most recently installed live override is
\* the active one (none when no guard is live), every live guard sits on top
\* of the next older one, and each destruction leaves active the dispatcher
\* that was active when the matching set_default call began.
C8_StackDiscipline ==
    \A t \in Threads :
        Lifo(t) =>
            /\ CURRENT_STATE[t] =
                   (IF guards[t] = {} THEN None ELSE NewestOf(guards[t]))
            /\ \A g \in guards[t] :
                   g.before =
                       (IF Older(t, g) = {} THEN None ELSE NewestOf(Older(t, g)))
            /\ \A i \in DOMAIN dropLog :
                   dropLog[i].t = t => dropLog[i].after = dropLog[i].before

\* C8 witness: two nested overrides with distinct dispatchers were destroyed
\* inner first; the first destruction revealed the outer dispatcher and the
\* second left the thread with none.
C8_NestedPairUnwound ==
    \E t \in Threads : \E i, j \in DOMAIN dropLog :
        /\ Lifo(t) /\ guards[t] = {} /\ CURRENT_STATE[t] = None
        /\ i < j /\ dropLog[i].t = t /\ dropLog[j].t = t
        /\ dropLog[i].id > dropLog[j].id
        /\ dropLog[i].after = dropLog[j].d /\ dropLog[i].d # dropLog[j].d
        /\ dropLog[j].after = None

\* C9: in whatever order a thread destroys nested guards, each destruction
\* makes active the dispatcher that was active when that guard's set_default
\* call began (it is the thread's active dispatcher until its next
\* set_default), and no guard restores more than once: a guard is destroyed
\* at most once and a live guard has not restored yet.
C9_EachGuardRestoresItsPrior ==
    /\ \A i \in DOMAIN dropLog : dropLog[i].after = dropLog[i].before
    /\ \A i, j \in DOMAIN dropLog :
           (dropLog[i].t = dropLog[j].t /\ dropLog[i].id = dropLog[j].id) => i = j
    /\ \A t \in Threads : \A g \in guards[t] :
           /\ g.prev = g.before
           /\ \A i \in DOMAIN dropLog : ~(dropLog[i].t = t /\ dropLog[i].id = g.id)
    /\ \A t \in Threads : \A i \in DOMAIN dropLog :
           (/\ dropLog[i].t = t
            /\ \A j \in DOMAIN dropLog : dropLog[j].t = t => j <= i
            /\ dropLog[i].at >= call[t].n) =>
               CURRENT_STATE[t] = dropLog[i].before

\* C9 witness: two nested guards were destroyed outer first; each restored
\* what was active before its own creation, so the thread ends on the outer
\* guard's dispatcher with no guard live.
C9_OutOfOrderDrops ==
    \E t \in Threads : \E i, j \in DOMAIN dropLog :
        /\ i < j /\ dropLog[i].t = t /\ dropLog[j].t = t
        /\ dropLog[i].id < dropLog[j].id
        /\ ~dropLog[i].top
        /\ dropLog[i].after = None
        /\ dropLog[j].after = dropLog[i].d /\ dropLog[j].after # dropLog[j].d
        /\ guards[t] = {} /\ CURRENT_STATE[t] = dropLog[i].d

InstallsScoped(t) == pc[t] = "sd_install" /\ pc'[t] = "idle"

\* This step is thread t destroying one of its guards.
DropsGuard(t) ==
    /\ Len(dropLog') = Len(dropLog) + 1
    /\ dropLog'[Len(dropLog')].t = t

\* C11: scoped overrides are thread-local.  A step changes a thread's scoped
\* dispatcher or its guards only if it is that thread's own set_default
\* install or guard destruction, and such a step changes no other thread's;
\* a thread that never called set_default has no scoped dispatcher whatever
\* the other threads hold.
C11_ScopedIsThreadLocal ==
    /\ [](\A t \in Threads :
            (guards[t] = {} /\ \A i \in DOMAIN dropLog : dropLog[i].t # t) =>
                CURRENT_STATE[t] = None)
    /\ [][\A t \in Threads :
              /\ (CURRENT_STATE'[t] # CURRENT_STATE[t] \/ guards'[t] # guards[t]) =>
                     (InstallsScoped(t) \/ DropsGuard(t))
              /\ (InstallsScoped(t) \/ DropsGuard(t)) =>
                     \A u \in Threads \ {t} :
                         /\ CURRENT_STATE'[u] = CURRENT_STATE[u]
                         /\ guards'[u] = guards[u]]_vars

\* C11 witness: two threads installed distinct overrides, one of them
\* destroyed its guard and is back to none while the other still runs under
\* its own override.
C11_IndependentOverrides ==
    \E t1, t2 \in Threads : \E i \in DOMAIN dropLog :
        /\ t1 # t2
        /\ dropLog[i].t = t1 /\ CURRENT_STATE[t1] = None
        /\ guards[t2] # {} /\ CURRENT_STATE[t2] = call[t2].d
        /\ dropLog[i].d # call[t2].d

\* The dispatcher in effect on thread t.
Effective(t) == get_default(CURRENT_STATE[t], GLOBAL_DISPATCH)

\* C12 as stated: on every thread the effective dispatcher is the innermost
\* live scoped override if there is one, else the global slot's dispatcher,
\* else none, in whatever order the guards were destroyed.
C12_EffectiveIsInnermostLive ==
    \A t \in Threads :
        Effective(t) =
            (IF guards[t] # {} THEN NewestOf(guards[t]) ELSE GLOBAL_DISPATCH)

\* C12 amended: the same, for a thread that destroys its guards in reverse
\* creation order.  A try_init that fills the slot while an override is live
\* then leaves the thread on its override, and after the thread's last guard
\* is destroyed the effective dispatcher is the global one (none if empty).
C12_EffectiveIsInnermostLiveLifo ==
    \A t \in Threads :
        Lifo(t) =>
            Effective(t) =
                (IF guards[t] # {} THEN NewestOf(guards[t]) ELSE GLOBAL_DISPATCH)

\* C12 witness: a try_init filled the global slot while the thread's override
\* was live; the guard was destroyed afterwards and the thread is now on the
\* global dispatcher, which differs from the override it ran under.
C12_BackToGlobalAfterLastGuard ==
    \E t, t2 \in Threads : \E i \in DOMAIN dropLog :
        /\ Lifo(t) /\ guards[t] = {} /\ dropLog[i].t = t
        /\ GlobalCall(t2) /\ wrote[t2]
        /\ dropLog[i].id < call[t2].n /\ dropLog[i].at >= call[t2].n
        /\ dropLog[i].d # GLOBAL_DISPATCH
        /\ Effective(t) = GLOBAL_DISPATCH /\ GLOBAL_DISPATCH = call[t2].d

\* How far a position is into a facade call; idle and panicked end it.
Rank(p) ==
    CASE p \in {"sd_install", "ti_query"} -> 1
      [] p = "ti_bridge" -> 2
      [] p = "expect" -> 3
      [] OTHER -> 4

\* C13: try_init and set_default never block and never loop.  Whatever the
\* other threads are doing, a thread inside a call can take its next step;
\* every step of a call moves it strictly forward, so a call ends after at
\* most three steps of its own (four for init); and try_init ends by
\* returning Ok or a failure value, never by panicking.
C13_NonBlockingBounded ==
    /\ [](\A t \in Threads :
            /\ pc[t] = "sd_install" => ENABLED set_default_install(t)
            /\ pc[t] = "ti_query" => ENABLED try_init_LevelFilter_current(t)
            /\ pc[t] = "ti_bridge" => ENABLED try_init_LogTracer_init(t)
            /\ pc[t] = "expect" => ENABLED init_expect(t)
            /\ call[t].op = "set_default" => pc[t] \in {"sd_install", "idle"}
            /\ call[t].op = "try_init" =>
                   /\ pc[t] \in {"ti_query", "ti_bridge", "idle"}
                   /\ outcome[t].kind \in {"running", "returned"}
                   /\ pc[t] = "idle" =>
                          (ret[t].kind \in {"Ok", "Err"} /\ outcome[t] = Returned))
    /\ [][\A t \in Threads :
              (pc[t] # "idle" /\ pc'[t] # pc[t]) =>
                  /\ Rank(pc'[t]) > Rank(pc[t])
                  /\ call'[t] = call[t]]_vars

\* C13 witness: a try_init and a set_default of two threads are in flight at
\* the same time, the bridge already being taken, and a third thread's
\* try_init has returned its failure value.
C13_CallsInFlightTogether ==
    \E t1, t2, t3 \in Threads :
        /\ pc[t1] = "ti_bridge" /\ call[t1].op = "try_init"
        /\ pc[t2] = "sd_install"
        /\ LOGGER.set
        /\ ENABLED try_init_LogTracer_init(t1)
        /\ ENABLED set_default_install(t2)
        /\ t3 # t1 /\ t3 # t2

\* This step is thread t entering set_default.
EntersSetDefault(t) == call'[t].n # call[t].n /\ call'[t].op = "set_default"

\* This step is a step of thread t inside try_init or init.
GlobalCallStep(t) ==
    \/ EntersGlobalCall(t)
    \/ pc[t] \in {"ti_query", "ti_bridge", "expect"} /\ pc'[t] # pc[t]

\* C14: each facade operation touches only its own registry primitive.  No
\* step of set_default and no guard destruction changes the global slot, so
\* an empty slot stays empty for a later try_init to win; no step of try_init
\* or init changes any thread's scoped dispatcher or guards.
C14_OwnPrimitiveOnly ==
    [][\A t \in Threads :
           /\ (EntersSetDefault(t) \/ InstallsScoped(t) \/ DropsGuard(t)) =>
                  UNCHANGED <<GLOBAL_DISPATCH, writes>>
           /\ GlobalCallStep(t) => UNCHANGED <<CURRENT_STATE, guards, dropLog>>
           /\ GLOBAL_DISPATCH' # GLOBAL_DISPATCH =>
                  \E u \in Threads : EntersGlobalCall(u) /\ wrote'[u]]_vars

\* C14 witness: a thread installed an override and destroyed its guard, the
\* slot stayed empty through both, and a later try_init won the slot without
\* giving any thread a scoped dispatcher.
C14_TryInitWinsAfterScopedUse ==
    \E t \in Threads : \E i \in DOMAIN dropLog :
        /\ dropLog[i].at < call[t].n
        /\ call[t].op = "try_init" /\ wrote[t] /\ ret[t] = Ok
        /\ GLOBAL_DISPATCH = call[t].d /\ GLOBAL_DISPATCH # dropLog[i].d
        /\ \A u \in Threads : CURRENT_STATE[u] = None /\ guards[u] = {}

AfterSetDefault(t) ==
    /\ features.tracing_log
    /\ GlobalCall(t) /\ call[t].with_logger
    /\ wrote[t] /\ TryInitReturned(t)
    /\ \E u \in Threads :
           call[u].op = "set_default" /\ call[u].n < call[t].n

\* What every set_default call does to the bridge with the "tracing-log"
\* feature: initialized afterwards, in the default configuration when it was
\* uninitialized, unchanged otherwise.
SetDefaultInitializesBridge ==
    /\ [](features.tracing_log /\ (\E u \in Threads : call[u].op = "set_default")
             => LOGGER.set)
    /\ [][\A t \in Threads :
              (features.tracing_log /\ EntersSetDefault(t)) =>
                  LOGGER' = IF LOGGER.set
                            THEN LOGGER
                            ELSE [set |-> TRUE, by |-> t, n |-> call'[t].n,
                                  max_level |-> LogTrace]]_vars

\* C16 as stated: with the "tracing-log" feature every set_default call leaves
\* the bridge initialized; a try_init with with_logger that wins the slot after
\* a set_default call keeps the slot filled, fails with SetLoggerError, and the
\* bridge threshold differs from the global dispatcher's severity.
C16_ThresholdNeverTheDispatchers ==
    /\ SetDefaultInitializesBridge
    /\ [](\A t \in Threads :
            AfterSetDefault(t) =>
                /\ GLOBAL_DISPATCH = call[t].d
                /\ FailedWith(t, "SetLoggerError")
                /\ LOGGER.max_level # as_log(max_level_hint(GLOBAL_DISPATCH)))

\* C16, amended: as above, but instead of differing from the dispatcher's
\* severity the bridge keeps the configuration it was given before the call
\* (the default one, or another actor's): the call's own initialization with
\* the dispatcher's severity is the attempt that failed.
C16_BridgeKeepsEarlierConfiguration ==
    /\ SetDefaultInitializesBridge
    /\ [](\A t \in Threads :
            AfterSetDefault(t) =>
                /\ GLOBAL_DISPATCH = call[t].d
                /\ FailedWith(t, "SetLoggerError")
                /\ LOGGER.set /\ LOGGER.n < call[t].n
                /\ LOGGER.by \in Threads => LOGGER.max_level = LogTrace
                /\ \E i \in DOMAIN bridgeLog :
                       /\ bridgeLog[i].n = call[t].n /\ ~bridgeLog[i].ok
                       /\ bridgeLog[i].max_level
                              = as_log(max_level_hint(GLOBAL_DISPATCH)))

\* C16 witness: a set_default call put the bridge in its default
\* configuration, and a later try_init with with_logger of a dispatcher at
\* TRACE filled the slot and failed on the bridge: the threshold in force
\* equals the dispatcher's severity although it was never set from it.
C16_DefaultThresholdCoincides ==
    \E t \in Threads :
        /\ AfterSetDefault(t) /\ call[t].op = "try_init"
        /\ FailedWith(t, "SetLoggerError")
        /\ LOGGER.by \in Threads /\ LOGGER.n < call[t].n
        /\ LOGGER.max_level = as_log(max_level_hint(GLOBAL_DISPATCH))

\* The successful initializations of the bridge, as positions in bridgeLog.
Initializers == {i \in DOMAIN bridgeLog : bridgeLog[i].ok}

\* C17: the bridge is write-once over all facade operations.  It is
\* initialized at most once, its configuration is the one given by that first
\* successful initializer and no step changes it afterwards, and the only
\* try_init/init call that attempts the threshold-configured initialization
\* is the one whose slot write succeeded: at most one such attempt is made.
C17_BridgeWriteOnce ==
    /\ [](/\ Cardinality(Initializers) <= 1
          /\ LOGGER.set <=> Initializers # {}
          /\ \A i \in Initializers :
                 /\ LOGGER.by = bridgeLog[i].by
                 /\ LOGGER.n = bridgeLog[i].n
                 /\ LOGGER.max_level = bridgeLog[i].max_level
          /\ \A i \in DOMAIN bridgeLog :
                 bridgeLog[i].kind = "with_max_level" =>
                     /\ bridgeLog[i].wrote
                     /\ Len(writes) = 1 /\ writes[1].t = bridgeLog[i].by
                     /\ \A j \in DOMAIN bridgeLog :
                            bridgeLog[j].kind = "with_max_level" => j = i)
    /\ [][LOGGER.set => LOGGER' = LOGGER]_vars

\* C17 witness: of two try_init calls with with_logger on different threads,
\* one won the slot and configured the bridge with its threshold, the other
\* failed on the slot, and the first one's attempt is the only one made.
C17_LoserNeverTouchedBridge ==
    \E t, u \in Threads :
        /\ t # u /\ features.tracing_log
        /\ call[t].op = "try_init" /\ call[t].with_logger /\ ret[t] = Ok
        /\ call[u].op = "try_init" /\ call[u].with_logger
        /\ FailedWith(u, "SetGlobalDefaultError")
        /\ LOGGER.set /\ LOGGER.by = t /\ LOGGER.n = call[t].n
        /\ Len(bridgeLog) = 1

\* ------------------------------------------------- the two builds compared
\* Number of try_init/init calls in one side-by-side run.
MaxSideCalls == 3

\* Variant of try_init that reports a failure only where the cause can be
\* kept: without "std" it returns Ok(()) whatever happened.
try_init_lossy(std, tracing_log, slot, logger, n, d, wl) ==
    LET w == set_global_default(slot, d) IN
    IF ~w.ok
    THEN [slot |-> w.slot, logger |-> logger,
          ret |-> IF std THEN Err(std, "SetGlobalDefaultError") ELSE Ok]
    ELSE IF tracing_log /\ wl
         THEN LET b == LogTracer_init(logger, "main", n,
                                      as_log(LevelFilter_current(w.slot))) IN
              [slot |-> w.slot, logger |-> b.logger,
               ret |-> IF b.ok \/ ~std THEN Ok ELSE Err(std, "SetLoggerError")]
         ELSE [slot |-> w.slot, logger |-> logger, ret |-> Ok]

\* try_init as one uninterrupted call (lines 58-79) of the build with the
\* given features, on the given slot and logger: the slot and logger it
\* leaves and the Result it returns.
try_init(std, tracing_log, slot, logger, n, d, wl) ==
    LET w == set_global_default(slot, d) IN
    IF ~w.ok
    THEN [slot |-> w.slot, logger |-> logger,
          ret |-> Err(std, "SetGlobalDefaultError")]
    ELSE IF tracing_log /\ wl
         THEN LET b == LogTracer_init(logger, "main", n,
                                      as_log(LevelFilter_current(w.slot))) IN
              [slot |-> w.slot, logger |-> b.logger,
               ret |-> IF b.ok THEN Ok ELSE Err(std, "SetLoggerError")]
         ELSE [slot |-> w.slot, logger |-> logger, ret |-> Ok]

\* init as one uninterrupted call (lines 94-102): try_init, then expect.
init(std, tracing_log, slot, logger, n, d, wl) ==
    LET r == try_init(std, tracing_log, slot, logger, n, d, wl) IN
    [slot |-> r.slot, logger |-> r.logger, ret |-> r.ret,
     outcome |-> IF r.ret.kind = "Err" THEN Panicked(r.ret.err) ELSE Returned]

\* The build's process was ended by a panic of init.
Aborted(b) ==
    b.outcomes # <<>> /\ b.outcomes[Len(b.outcomes)].kind = "panicked"

\* One build makes the next call of the sequence, unless it is aborted.
BuildCall(b, std, op, d, wl) ==
    IF Aborted(b)
    THEN b
    ELSE LET n == Len(side.calls) + 1
             r == IF op = "init"
                  THEN init(std, features.tracing_log, b.slot, b.logger, n, d, wl)
                  ELSE [outcome |-> Returned] @@
                       try_init(std, features.tracing_log, b.slot, b.logger, n, d, wl)
         IN [slot |-> r.slot, logger |-> r.logger,
             results |-> Append(b.results, r.ret),
             outcomes |-> Append(b.outcomes, r.outcome)]

\* Both builds make the same next call, a try_init or an init.
SideBySide_call(op, d, wl) ==
    /\ Len(side.calls) < MaxSideCalls
    /\ wl => features.tracing_log
    /\ ~(Aborted(side.std) /\ Aborted(side.nostd))
    /\ side' = [calls |-> Append(side.calls, [op |-> op, d |-> d, with_logger |-> wl]),
                std |-> BuildCall(side.std, TRUE, op, d, wl),
                nostd |-> BuildCall(side.nostd, FALSE, op, d, wl)]
    /\ UNCHANGED <<features, GLOBAL_DISPATCH, CURRENT_STATE, guards, LOGGER, pc,
                   call, level, ret, outcome, wrote, writes, bridgeLog, dropLog,
                   ncalls>>

\* Another actor installs its own `log` logger, at the same point of both runs.
SideBySide_foreign_set_logger ==
    /\ ~side.std.logger.set /\ ~side.nostd.logger.set
    /\ LET l == [set |-> TRUE, by |-> "foreign", n |-> 0, max_level |-> LogOff] IN
       side' = [side EXCEPT !.std.logger = l, !.nostd.logger = l]
    /\ UNCHANGED <<features, GLOBAL_DISPATCH, CURRENT_STATE, guards, LOGGER, pc,
                   call, level, ret, outcome, wrote, writes, bridgeLog, dropLog,
                   ncalls>>

\* The two builds differ in "std" only; `features` is the std build's.
InitSide == Init /\ features.std

NextSide ==
    \/ \E op \in {"try_init", "init"}, d \in Dispatchers, wl \in BOOLEAN :
           SideBySide_call(op, d, wl)
    \/ SideBySide_foreign_set_logger

SpecSide == InitSide /\ [][NextSide]_vars

\* C18: run side by side on the same sequence of try_init/init calls from the
\* same initial state, the std build and the no-std build return Ok and Err
\* (with the same cause) on the same calls, panic on the same calls, and hold
\* the same global slot and the same bridge; they differ only in what the
\* returned failure keeps of its cause, which is all its text is made from.
C18_BuildsEquivalent ==
    LET a == side.std
        b == side.nostd IN
    /\ a.slot = b.slot /\ a.logger = b.logger
    /\ Len(a.results) = Len(side.calls) /\ Len(b.results) = Len(side.calls)
    /\ Len(a.outcomes) = Len(side.calls) /\ Len(b.outcomes) = Len(side.calls)
    /\ \A i \in DOMAIN side.calls :
           /\ a.results[i].kind = b.results[i].kind
           /\ a.results[i].cause = b.results[i].cause
           /\ a.outcomes[i].kind = b.outcomes[i].kind
           /\ a.outcomes[i].msg = b.outcomes[i].msg
           /\ a.results[i].kind = "Err" =>
                  /\ a.results[i].err = [inner |-> a.results[i].cause]
                  /\ b.results[i].err = [inner |-> "()"]

\* C18 witness: a run of three calls in which both builds saw a call fill the
\* slot but fail on the bridge, then a try_init fail on the filled slot, then
\* an init panic.
C18_BothFailuresThenPanic ==
    /\ Len(side.calls) = 3 /\ side.std.slot # None
    /\ \A b \in {side.std, side.nostd} :
           /\ Len(b.results) = 3
           /\ b.results[1].cause = "SetLoggerError"
           /\ b.results[2].cause = "SetGlobalDefaultError"
           /\ b.outcomes[2].kind = "returned"
           /\ b.outcomes[3].kind = "panicked"

\* ------------------------------------------------- the text of a failure
\* The causes try_init wraps: the registry's and the `log` crate's error.
Causes == {"SetGlobalDefaultError", "SetLoggerError"}

\* fmt::Debug of a cause.
Debug_fmt(c) ==
    IF c = "SetGlobalDefaultError"
    THEN "SetGlobalDefaultError { _no_construct: () }"
    ELSE "SetLoggerError(())"

\* fmt::Display of a cause.
Display_fmt(c) ==
    IF c = "SetGlobalDefaultError"
    THEN "a global default trace dispatcher has already been set"
    ELSE "attempted to set a logger after the logging system was already initialized"

\* Error::source of a cause: neither has an underlying cause of its own.
Error_source(c) == "None"

\* impl fmt::Debug for TryInitError.
TryInitError_Debug_fmt(std, e) ==
    IF std THEN Debug_fmt(e.inner) ELSE "TryInitError(())"

\* Variant of Display without the cfg(feature = "std") arm: the fixed message
\* in every build.
TryInitError_Display_fmt_fixed(std, e) ==
    "failed to set global default subscriber"

\* impl fmt::Display for TryInitError.
TryInitError_Display_fmt(std, e) ==
    IF std
    THEN Display_fmt(e.inner)
    ELSE "failed to set global default subscriber"

\* impl Error for TryInitError (only with "std"): `self.inner.source()`.
\* Without the impl nothing reports a further cause.
TryInitError_source(std, e) ==
    IF std THEN Error_source(e.inner) ELSE "None"

\* C19: every failure returned by try_init (and carried by init's panic)
\* wraps exactly one cause, the registry's or the bridge's.  With "std" its
\* Debug text, Display text and source are those of that cause; without
\* "std" the Debug text is "TryInitError(())", the Display text is "failed to
\* set global default subscriber" and there is no source, whatever the cause.
C19_TextFollowsCauseAndBuild ==
    \A t \in Threads :
        \A r \in {ret[t], [ret[t] EXCEPT !.err = outcome[t].err]} :
            (ret[t].kind = "Err" /\ r.err # NoError) =>
                /\ r.cause \in Causes
                /\ DOMAIN r.err = {"inner"}
                /\ IF features.std
                   THEN /\ r.err.inner = r.cause
                        /\ TryInitError_Debug_fmt(TRUE, r.err) = Debug_fmt(r.cause)
                        /\ TryInitError_Display_fmt(TRUE, r.err) = Display_fmt(r.cause)
                        /\ TryInitError_source(TRUE, r.err) = Error_source(r.cause)
                   ELSE /\ r.err.inner \notin Causes
                        /\ TryInitError_Debug_fmt(FALSE, r.err) = "TryInitError(())"
                        /\ TryInitError_Display_fmt(FALSE, r.err)
                               = "failed to set global default subscriber"
                        /\ TryInitError_source(FALSE, r.err) = "None"

\* C19 witness: in the std build one call failed on the slot and another on
\* the bridge, and the two failures read differently.
C19_TwoCausesTwoTexts ==
    \E t, u \in Threads :
        /\ features.std
        /\ FailedWith(t, "SetGlobalDefaultError")
        /\ FailedWith(u, "SetLoggerError")
        /\ TryInitError_Display_fmt(features.std, ret[t].err)
               # TryInitError_Display_fmt(features.std, ret[u].err)
        /\ TryInitError_Debug_fmt(features.std, ret[t].err)
               # TryInitError_Debug_fmt(features.std, ret[u].err)

====
